---- MODULE Spec2Model ----
(***************************************************************************)
(* scarabnet: the Client and the Server session objects, their network     *)
(* loop, the thread-safe event queue (TSQueue) and the packet codec.       *)
(*                                                                         *)
(* One instance is modelled at a time: Init chooses whether the instance   *)
(* is a Server or a Client.  The transport engine (ENet) is the            *)
(* environment: it owns the peer slots and the notifications that          *)
(* enet_host_service hands out one at a time.                              *)
(*                                                                         *)
(* Spec           every operation of the instance, one polling thread      *)
(* SpecCallers    the same with several threads calling poll_event         *)
(* SpecDtor       the same with the destructor                             *)
(* SpecLocks      a Server with the queue's mutex taken in its own steps   *)
(* SpecHost       send, broadcast, disconnect with transport calls in two  *)
(*                steps, entry and return                                  *)
(* SpecServerFair a Server under sustained traffic, fairly scheduled       *)
(* SpecCodec      serialize_packet / deserialize_packet on their own       *)
(* SpecQueue      a TSQueue on its own                                     *)
(***************************************************************************)
EXTENDS Integers, Sequences, FiniteSets, TLC

\* ------------------------------------------------------------------ bounds
MaxPeers    == 2   \* peer slots of the Server host (max_clients)
MaxNotes    == 3   \* notifications the transport produces in a run
MaxDisc     == 2   \* disconnect requests counted per Client session
MaxCallers  == 2   \* threads that call poll_event on a shared instance
MaxQueue    == 3   \* items in a TSQueue exercised on its own

\* --------------------------------------------------------------- constants
HeaderSize == 8    \* sizeof(Packet::Header): two uint32
Byte       == 256

Peers     == 1 .. MaxPeers
Consumers == {1}   \* threads that call poll_event
ServerPeer == 1    \* the one peer slot of a Client host
FirstId    == 1    \* the id the first client of a Server gets (curid = 1)
Callers   == 1 .. MaxCallers   \* several threads polling one instance

\* ------------------------------------------------------------ packet codec
\* a uint32 as memcpy lays it out (native order, little-endian)
U32Bytes(x) ==
  << x % Byte, (x \div Byte) % Byte, (x \div (Byte * Byte)) % Byte,
     (x \div (Byte * Byte * Byte)) % Byte >>

BytesU32(b) ==
  b[1] + b[2] * Byte + b[3] * Byte * Byte + b[4] * Byte * Byte * Byte

\* Packet::size
PacketSize(p) == HeaderSize + Len(p.data)

\* a serialize_packet that copies the header and forgets the payload
serialize_packet_HeaderOnly(p) == U32Bytes(p.id) \o U32Bytes(p.type)

\* PacketHelper::serialize_packet
serialize_packet(p) == U32Bytes(p.id) \o U32Bytes(p.type) \o p.data

\* PacketHelper::deserialize_packet: <<>> is the null unique_ptr
deserialize_packet(buf) ==
  IF Len(buf) < HeaderSize
    THEN << >>
    ELSE << [ id   |-> BytesU32(SubSeq(buf, 1, 4)),
              type |-> BytesU32(SubSeq(buf, 5, 8)),
              data |-> SubSeq(buf, HeaderSize + 1, Len(buf)) ] >>

\* the buffers the remote side sends: a truncated one and a whole packet
HiPacket == [ id |-> 1, type |-> 2, data |-> << 104, 105 >> ]
OkPacket == [ id |-> 3, type |-> 4, data |-> << 111, 107 >> ]
Wires == { << 1, 2, 3 >>, serialize_packet(HiPacket) }

\* the packets and the raw inputs the codec is exercised with: header fields
\* that fill one, two and four bytes, payloads from empty to three bytes;
\* inputs of every length from 0 to 10
CodecIds      == { 0, 1, 258, 16777217 }
CodecPayloads == { << >>, << 0 >>, << 255, 7 >>, << 1, 2, 3 >> }
Packets       == [ id : CodecIds, type : CodecIds, data : CodecPayloads ]
CodecInputs   ==
  { SubSeq(full, 1, n) :
      n \in 0 .. 10,
      full \in { << 1, 0, 0, 0, 2, 0, 0, 0, 104, 105 >>,
                 << 255, 255, 255, 127, 0, 1, 0, 0, 0, 9 >> } }

\* ----------------------------------------------------------------- TSQueue
\* a TSQueue method runs under std::scoped_lock(mux): the caller takes the
\* mutex in the same step, or has taken it in a step of its own
NoThread      == << >>
LoopThread    == << "loop" >>
PollThread(t) == << "poll", t >>
MuxFor(mux, self) == mux \in { NoThread, self }


\* TSQueue::push_back
push_back(q, item) == Append(q, item)

\* TSQueue::empty
empty(q) == q = << >>

\* TSQueue::pop_front: the item returned
pop_front_item(q) == Head(q)

\* a pop_front that returns the front item and forgets to remove it
pop_front_keep(q) == q

\* TSQueue::pop_front: the queue left behind
pop_front_rest(q) == Tail(q)

\* TSQueue::pop_back: the item returned, std::move(queue.back())
pop_back_item(q) == q[Len(q)]

\* TSQueue::pop_back: the queue left behind, after queue.pop_front()
pop_back_rest(q) == Tail(q)

QueueItems == 1 .. MaxQueue

\* ------------------------------------------------------------------- state
VARIABLES
  role,       \* "Server" or "Client": which object this instance is
  running,    \* std::atomic<bool> running
  connected,  \* Client: std::atomic<bool> connected
  joinable,   \* this->thread.joinable()
  looppc,     \* position of the network loop task
  ev,         \* the loop's ENetEvent (and its local newid / peerid) while a
              \* notification is being handled
  net,        \* transport: notifications enet_host_service will hand out
  tstate,     \* transport: state of each peer slot
  pdata,      \* transport: peer->data of each peer slot
  clients,    \* Server: unordered_map<uint32, ENetPeer*>
  curid,      \* Server: uint32 curid
  cmutex,     \* Server: holder of clients_mutex
  peer,       \* Client: this->peer (0 is nullptr)
  events,     \* TSQueue<Event> events
  pushed,     \* history: every event pushed, in push order
  popped,     \* history: every event poll_event returned, in order
  apppc,      \* position of the application thread in the call it is making
  sendarg,    \* send's arguments and locals
  pollpc,     \* position of each thread calling poll_event
  lastcall,   \* history: the last send/broadcast/connect/disconnect call, what
              \* it saw on entry and what it handed to the transport
  ndisc,      \* history: enet_peer_disconnect calls in this Client session
  aborted,    \* std::terminate was called
  ub,         \* undefined behaviour was executed
  nnote,      \* notifications the transport has produced so far
  tmploop,    \* Client: the std::thread temporary of connect() runs a second
              \* loop task beside the one this->thread still holds
  qmutex,     \* holder of the event queue's mutex (TSQueue::mux)
  pkt,        \* codec: the Packet handed to serialize_packet
  bytes,      \* codec: the bytes handed to deserialize_packet
  decoded,    \* codec: what deserialize_packet returned
  queue,      \* a TSQueue on its own: its deque
  taken       \* a TSQueue on its own: what the last pop returned

vars ==
  << role, running, connected, joinable, looppc, ev, net, tstate,
                  pdata, clients, curid, cmutex, peer, events, pushed, popped,
                  apppc, sendarg, pollpc, lastcall, ndisc, aborted,
                  ub, nnote, tmploop, qmutex, pkt, bytes, decoded,
                  queue, taken >>

NoEvent == [ type |-> "NONE", peer |-> 0, data |-> << >>, id |-> 0 ]
NoCall  == [ op |-> "none", c |-> 0, run |-> FALSE, conn |-> FALSE,
             reg |-> FALSE, discd |-> FALSE, out |-> "none",
             to |-> 0, buf |-> << >> ]
NoSend  == [ c |-> 0, buf |-> << >> ]
EmptyMap == [ c \in {} |-> 0 ]
NoPacket == [ id |-> 0, type |-> 0, data |-> << >> ]
NoDecode == [ of |-> << >>, out |-> << >> ]
NoTake   == [ before |-> << >>, item |-> 0 ]

\* enet_host_destroy(this->host) has run: the instance is gone
HostDestroyed == apppc = "destroyed"

Alive == ~aborted /\ ~ub /\ ~HostDestroyed

\* the network loop task exists and has not returned
LoopLive == looppc \notin { "off", "exited" }

\* the histories keep their first MaxHist entries
MaxHist == MaxNotes
Record(h, e) == IF Len(h) < MaxHist THEN Append(h, e) ELSE h

DiscPushed(c) ==
  \E i \in 1 .. Len(pushed) :
    pushed[i].type = "Disconnect" /\ pushed[i].peer_id = c

InitSession ==
  /\ role \in { "Server", "Client" }
  /\ running = FALSE
  /\ connected = FALSE
  /\ joinable = FALSE
  /\ looppc = "off"
  /\ ev = NoEvent
  /\ net = << >>
  /\ tstate = [ p \in Peers |-> "none" ]
  /\ pdata = [ p \in Peers |-> 0 ]
  /\ clients = EmptyMap
  /\ curid = FirstId
  /\ cmutex = "free"
  /\ peer = 0
  /\ events = << >>
  /\ pushed = << >>
  /\ popped = << >>
  /\ apppc = "idle"
  /\ sendarg = NoSend
  /\ lastcall = NoCall
  /\ ndisc = 0
  /\ aborted = FALSE
  /\ ub = FALSE
  /\ nnote = 0
  /\ tmploop = FALSE
  /\ qmutex = NoThread

\* the codec and the stand-alone queue are not exercised
InitUnits ==
  /\ pkt = NoPacket
  /\ bytes = << >>
  /\ decoded = NoDecode
  /\ queue = << >>
  /\ taken = NoTake

InitObject == InitSession /\ InitUnits

\* one thread polls the instance
Init == InitObject /\ pollpc = [ t \in Consumers |-> "idle" ]

\* several threads poll the instance
InitCallers == InitObject /\ pollpc = [ t \in Callers |-> "idle" ]

\* --------------------------------------------------------------- transport
\* a remote client completes the handshake with a free peer slot of a Server
EnvConnect(p) ==
  /\ Alive /\ role = "Server"
  /\ tstate[p] = "none"
  /\ nnote < MaxNotes
  /\ tstate' = [ tstate EXCEPT ![p] = "connected" ]
  /\ net' = Append(net, [ type |-> "CONNECT", peer |-> p, data |-> << >>, id |-> 0 ])
  /\ nnote' = nnote + 1
  /\ UNCHANGED << role, running, connected, joinable, looppc, ev, pdata,
                  clients, curid, cmutex, peer, events, pushed, popped, apppc,
                  sendarg, pollpc, lastcall, ndisc, aborted, ub, tmploop,
                  qmutex, pkt, bytes, decoded, queue, taken >>

\* the server answers the connection request of a Client
EnvConnectOk ==
  /\ Alive /\ role = "Client"
  /\ tstate[ServerPeer] = "connecting"
  /\ nnote < MaxNotes
  /\ nnote' = nnote + 1
  /\ tstate' = [ tstate EXCEPT ![ServerPeer] = "connected" ]
  /\ net' = Append(net, [ type |-> "CONNECT", peer |-> ServerPeer, data |-> << >>, id |-> 0 ])
  /\ UNCHANGED << role, running, connected, joinable, looppc, ev, pdata,
                  clients, curid, cmutex, peer, events, pushed, popped, apppc,
                  sendarg, pollpc, lastcall, ndisc, aborted, ub, tmploop,
                  qmutex, pkt, bytes, decoded, queue, taken >>

\* the remote side sends a buffer
EnvReceive(p, w) ==
  /\ Alive
  /\ tstate[p] = "connected"
  /\ nnote < MaxNotes
  /\ net' = Append(net, [ type |-> "RECEIVE", peer |-> p, data |-> w, id |-> 0 ])
  /\ nnote' = nnote + 1
  /\ UNCHANGED << role, running, connected, joinable, looppc, ev, tstate,
                  pdata, clients, curid, cmutex, peer, events, pushed, popped,
                  apppc, sendarg, pollpc, lastcall, ndisc, aborted, ub,
                  tmploop, qmutex, pkt, bytes, decoded, queue, taken >>

\* the connection ends: the remote side left, a requested disconnect
\* completed, the peer timed out, or (Client) the connection attempt failed
EnvDisconnect(p, kind) ==
  /\ Alive
  /\ \/ tstate[p] \in { "connected", "disconnecting" }
     \/ role = "Client" /\ tstate[p] = "connecting"
  /\ nnote < MaxNotes
  /\ nnote' = nnote + 1
  /\ tstate' = [ tstate EXCEPT ![p] = "zombie" ]
  /\ net' = Append(net, [ type |-> kind, peer |-> p, data |-> << >>, id |-> 0 ])
  /\ UNCHANGED << role, running, connected, joinable, looppc, ev, pdata,
                  clients, curid, cmutex, peer, events, pushed, popped, apppc,
                  sendarg, pollpc, lastcall, ndisc, aborted, ub, tmploop,
                  qmutex, pkt, bytes, decoded, queue, taken >>

\* the remote side of a connected peer keeps sending: whenever the loop has
\* drained the notifications there is another RECEIVE for its next service
\* call (as long as the application keeps the event queue drained)
EnvFlood(p, w) ==
  /\ Alive /\ role = "Server"
  /\ tstate[p] = "connected"
  /\ net = << >>
  /\ events = << >>
  /\ net' = << [ type |-> "RECEIVE", peer |-> p, data |-> w, id |-> 0 ] >>
  /\ UNCHANGED << role, running, connected, joinable, looppc, ev, tstate,
                  pdata, clients, curid, cmutex, peer, events, pushed, popped,
                  apppc, sendarg, pollpc, lastcall, ndisc, aborted, ub, nnote,
                  tmploop, qmutex, pkt, bytes, decoded, queue, taken >>

\* ------------------------------------------------------------ network loop
\* the event record pushed to the queue; packet is << >> when null
MkEvent(id, type, packet) == [ peer_id |-> id, type |-> type, packet |-> packet ]

\* a curid that is read and never incremented
CurIdAfter_Stuck(cur) == cur

\* Server curid++ : the value curid holds afterwards (a uint32: it wraps
\* only after 2^32 connections, far beyond MaxNotes)
CurIdAfter(cur) == cur + 1

\* an insert that points every entry at the new peer
ClientsInsert_Shared(m, id, p) == [ c \in DOMAIN m \cup { id } |-> p ]

\* clients[newid] = event.peer
ClientsInsert(m, id, p) ==
  [ c \in DOMAIN m \cup { id } |-> IF c = id THEN p ELSE m[c] ]

\* a DISCONNECT handler that leaves the entry in the map
ClientsErase_Keep(m, id) == m

\* clients.erase(peerid)
ClientsErase(m, id) == [ c \in DOMAIN m \ { id } |-> m[c] ]

\* a DISCONNECT handler that pushes the wrong event type
DisconnectEventType_Connect == "Connect"

\* the EventType pushed for DISCONNECT / DISCONNECT_TIMEOUT
DisconnectEventType == "Disconnect"

\* a CONNECT handler that does not raise the flag
ConnectedOnConnect_Unset == FALSE

\* the value stored to connected on CONNECT
ConnectedOnConnect == TRUE

\* the value stored to connected on DISCONNECT / DISCONNECT_TIMEOUT
ConnectedOnDisconnect == FALSE

IsDisconnect(e) == e.type \in { "DISCONNECT", "DISCONNECT_TIMEOUT" }

\* while(this->running)
LoopOuter ==
  /\ Alive /\ looppc = "outer"
  /\ looppc' = IF running THEN "service" ELSE "exited"
  /\ UNCHANGED << role, running, connected, joinable, ev, net, tstate, pdata,
                  clients, curid, cmutex, peer, events, pushed, popped, apppc,
                  sendarg, pollpc, lastcall, ndisc, aborted, ub, nnote,
                  tmploop, qmutex, pkt, bytes, decoded, queue, taken >>

\* while(enet_host_service(host, &event, 5) > 0): one notification, or none
\* after the wait; a dispatched disconnect frees the peer slot
LoopService ==
  /\ Alive /\ looppc = "service"
  /\ IF net = << >>
       THEN /\ looppc' = "outer"
            /\ UNCHANGED << ev, net, tstate >>
       ELSE /\ ev' = Head(net)
            /\ net' = Tail(net)
            /\ tstate' = IF IsDisconnect(Head(net))
                           THEN [ tstate EXCEPT ![Head(net).peer] = "none" ]
                           ELSE tstate
            /\ looppc' = "dispatch"
  /\ UNCHANGED << role, running, connected, joinable, pdata, clients, curid,
                  cmutex, peer, events, pushed, popped, apppc, sendarg, pollpc,
                  lastcall, ndisc, aborted, ub, nnote, tmploop, qmutex, pkt,
                  bytes, decoded, queue, taken >>

\* the loop is at a call of events.push_back
AtPush ==
  \/ looppc \in { "conn_push", "disc_push" }
  \/ looppc = "dispatch" /\ ev.type = "RECEIVE"

\* the loop takes the queue's mutex: the scoped_lock of push_back
LoopQueueLock ==
  /\ Alive /\ AtPush
  /\ qmutex = NoThread
  /\ qmutex' = LoopThread
  /\ UNCHANGED << role, running, connected, joinable, looppc, ev, net, tstate,
                  pdata, clients, curid, cmutex, peer, events, pushed, popped,
                  apppc, sendarg, pollpc, lastcall, ndisc, aborted, ub, nnote,
                  tmploop, pkt, bytes, decoded, queue, taken >>

\* Server, ENET_EVENT_TYPE_CONNECT: lock, newid = curid++, register, stash
SrvConnectRegister ==
  /\ Alive /\ role = "Server" /\ looppc = "dispatch" /\ ev.type = "CONNECT"
  /\ cmutex = "free"
  /\ cmutex' = "loop"
  /\ curid' = CurIdAfter(curid)
  /\ clients' = ClientsInsert(clients, curid, ev.peer)
  /\ pdata' = [ pdata EXCEPT ![ev.peer] = curid ]
  /\ ev' = [ ev EXCEPT !.id = curid ]
  /\ looppc' = "conn_push"
  /\ UNCHANGED << role, running, connected, joinable, net, tstate, peer,
                  events, pushed, popped, apppc, sendarg, pollpc, lastcall,
                  ndisc, aborted, ub, nnote, tmploop, qmutex, pkt, bytes,
                  decoded, queue, taken >>

\* Server, ENET_EVENT_TYPE_CONNECT: push the Connect event, unlock
SrvConnectPush ==
  /\ Alive /\ role = "Server" /\ looppc = "conn_push"
  /\ MuxFor(qmutex, LoopThread)
  /\ qmutex' = NoThread
  /\ events' = push_back(events, MkEvent(ev.id, "Connect", << >>))
  /\ pushed' = Record(pushed, MkEvent(ev.id, "Connect", << >>))
  /\ cmutex' = "free"
  /\ looppc' = "service"
  /\ ev' = NoEvent
  /\ UNCHANGED << role, running, connected, joinable, net, tstate, pdata,
                  clients, curid, peer, popped, apppc, sendarg, pollpc,
                  lastcall, ndisc, aborted, ub, nnote, tmploop, pkt, bytes,
                  decoded, queue, taken >>

\* Server, ENET_EVENT_TYPE_RECEIVE: push a Receive event with the decoded packet
SrvReceive ==
  /\ Alive /\ role = "Server" /\ looppc = "dispatch" /\ ev.type = "RECEIVE"
  /\ MuxFor(qmutex, LoopThread)
  /\ qmutex' = NoThread
  /\ LET e == MkEvent(pdata[ev.peer], "Receive", deserialize_packet(ev.data))
     IN  /\ events' = push_back(events, e)
         /\ pushed' = Record(pushed, e)
  /\ looppc' = "service"
  /\ ev' = NoEvent
  /\ UNCHANGED << role, running, connected, joinable, net, tstate, pdata,
                  clients, curid, cmutex, peer, popped, apppc, sendarg, pollpc,
                  lastcall, ndisc, aborted, ub, nnote, tmploop, pkt, bytes,
                  decoded, queue, taken >>

\* Server, DISCONNECT / DISCONNECT_TIMEOUT: lock, read the stashed id, erase
SrvDisconnectErase ==
  /\ Alive /\ role = "Server" /\ looppc = "dispatch" /\ IsDisconnect(ev)
  /\ cmutex = "free"
  /\ cmutex' = "loop"
  /\ clients' = ClientsErase(clients, pdata[ev.peer])
  /\ ev' = [ ev EXCEPT !.id = pdata[ev.peer] ]
  /\ looppc' = "disc_push"
  /\ UNCHANGED << role, running, connected, joinable, net, tstate, pdata,
                  curid, peer, events, pushed, popped, apppc, sendarg, pollpc,
                  lastcall, ndisc, aborted, ub, nnote, tmploop, qmutex, pkt,
                  bytes, decoded, queue, taken >>

\* Server, DISCONNECT / DISCONNECT_TIMEOUT: push the Disconnect event, unlock
SrvDisconnectPush ==
  /\ Alive /\ role = "Server" /\ looppc = "disc_push"
  /\ MuxFor(qmutex, LoopThread)
  /\ qmutex' = NoThread
  /\ events' = push_back(events, MkEvent(ev.id, DisconnectEventType, << >>))
  /\ pushed' = Record(pushed, MkEvent(ev.id, DisconnectEventType, << >>))
  /\ cmutex' = "free"
  /\ looppc' = "service"
  /\ ev' = NoEvent
  /\ UNCHANGED << role, running, connected, joinable, net, tstate, pdata,
                  clients, curid, peer, popped, apppc, sendarg, pollpc,
                  lastcall, ndisc, aborted, ub, nnote, tmploop, pkt, bytes,
                  decoded, queue, taken >>

\* Client, ENET_EVENT_TYPE_CONNECT: connected = true
CliConnectSet ==
  /\ Alive /\ role = "Client" /\ looppc = "dispatch" /\ ev.type = "CONNECT"
  /\ connected' = ConnectedOnConnect
  /\ ndisc' = 0
  /\ looppc' = "conn_push"
  /\ UNCHANGED << role, running, joinable, ev, net, tstate, pdata, clients,
                  curid, cmutex, peer, events, pushed, popped, apppc, sendarg,
                  pollpc, lastcall, aborted, ub, nnote, tmploop, qmutex, pkt,
                  bytes, decoded, queue, taken >>

\* Client, ENET_EVENT_TYPE_CONNECT: push the Connect event (serverid 0)
CliConnectPush ==
  /\ Alive /\ role = "Client" /\ looppc = "conn_push"
  /\ MuxFor(qmutex, LoopThread)
  /\ qmutex' = NoThread
  /\ events' = push_back(events, MkEvent(0, "Connect", << >>))
  /\ pushed' = Record(pushed, MkEvent(0, "Connect", << >>))
  /\ looppc' = "service"
  /\ ev' = NoEvent
  /\ UNCHANGED << role, running, connected, joinable, net, tstate, pdata,
                  clients, curid, cmutex, peer, popped, apppc, sendarg, pollpc,
                  lastcall, ndisc, aborted, ub, nnote, tmploop, pkt, bytes,
                  decoded, queue, taken >>

\* Client, ENET_EVENT_TYPE_RECEIVE
CliReceive ==
  /\ Alive /\ role = "Client" /\ looppc = "dispatch" /\ ev.type = "RECEIVE"
  /\ MuxFor(qmutex, LoopThread)
  /\ qmutex' = NoThread
  /\ LET e == MkEvent(0, "Receive", deserialize_packet(ev.data))
     IN  /\ events' = push_back(events, e)
         /\ pushed' = Record(pushed, e)
  /\ looppc' = "service"
  /\ ev' = NoEvent
  /\ UNCHANGED << role, running, connected, joinable, net, tstate, pdata,
                  clients, curid, cmutex, peer, popped, apppc, sendarg, pollpc,
                  lastcall, ndisc, aborted, ub, nnote, tmploop, pkt, bytes,
                  decoded, queue, taken >>

\* Client, DISCONNECT / DISCONNECT_TIMEOUT: running = false
CliDisconnectRunning ==
  /\ Alive /\ role = "Client" /\ looppc = "dispatch" /\ IsDisconnect(ev)
  /\ running' = FALSE
  /\ looppc' = "disc_conn"
  /\ UNCHANGED << role, connected, joinable, ev, net, tstate, pdata, clients,
                  curid, cmutex, peer, events, pushed, popped, apppc, sendarg,
                  pollpc, lastcall, ndisc, aborted, ub, nnote, tmploop, qmutex,
                  pkt, bytes, decoded, queue, taken >>

\* Client, DISCONNECT / DISCONNECT_TIMEOUT: connected = false
CliDisconnectConnected ==
  /\ Alive /\ role = "Client" /\ looppc = "disc_conn"
  /\ connected' = ConnectedOnDisconnect
  /\ looppc' = "disc_push"
  /\ UNCHANGED << role, running, joinable, ev, net, tstate, pdata, clients,
                  curid, cmutex, peer, events, pushed, popped, apppc, sendarg,
                  pollpc, lastcall, ndisc, aborted, ub, nnote, tmploop, qmutex,
                  pkt, bytes, decoded, queue, taken >>

\* Client, DISCONNECT / DISCONNECT_TIMEOUT: push the Disconnect event
CliDisconnectPush ==
  /\ Alive /\ role = "Client" /\ looppc = "disc_push"
  /\ MuxFor(qmutex, LoopThread)
  /\ qmutex' = NoThread
  /\ events' = push_back(events, MkEvent(0, DisconnectEventType, << >>))
  /\ pushed' = Record(pushed, MkEvent(0, DisconnectEventType, << >>))
  /\ looppc' = "service"
  /\ ev' = NoEvent
  /\ UNCHANGED << role, running, connected, joinable, net, tstate, pdata,
                  clients, curid, cmutex, peer, popped, apppc, sendarg, pollpc,
                  lastcall, ndisc, aborted, ub, nnote, tmploop, pkt, bytes,
                  decoded, queue, taken >>

\* ------------------------------------------------------------------ Server
\* Server::start, called by the application thread or, while that thread is
\* inside send(), by another thread
Start ==
  /\ Alive /\ role = "Server" /\ apppc \in { "idle", "created", "locked" }
  /\ IF running
       THEN UNCHANGED << running, joinable, looppc, aborted >>
       ELSE /\ running' = TRUE
            /\ IF joinable
                 THEN aborted' = TRUE /\ UNCHANGED << joinable, looppc >>
                 ELSE joinable' = TRUE /\ looppc' = "outer" /\ UNCHANGED aborted
  /\ UNCHANGED << role, connected, ev, net, tstate, pdata, clients, curid,
                  cmutex, peer, events, pushed, popped, apppc, sendarg, pollpc,
                  lastcall, ndisc, ub, nnote, tmploop, qmutex, pkt, bytes,
                  decoded, queue, taken >>

\* Server::stop: clear the flag; join when the thread is joinable
Stop ==
  /\ Alive /\ role = "Server" /\ apppc = "idle"
  /\ running' = FALSE
  /\ apppc' = IF joinable THEN "joining" ELSE "idle"
  /\ UNCHANGED << role, connected, joinable, looppc, ev, net, tstate, pdata,
                  clients, curid, cmutex, peer, events, pushed, popped,
                  sendarg, pollpc, lastcall, ndisc, aborted, ub, nnote,
                  tmploop, qmutex, pkt, bytes, decoded, queue, taken >>

\* Server::stop: thread.join() returns once the loop task has returned
StopJoin ==
  /\ Alive /\ role = "Server" /\ apppc = "joining"
  /\ looppc = "exited"
  /\ joinable' = FALSE
  /\ looppc' = "off"
  /\ apppc' = "idle"
  /\ UNCHANGED << role, running, connected, ev, net, tstate, pdata, clients,
                  curid, cmutex, peer, events, pushed, popped, sendarg, pollpc,
                  lastcall, ndisc, aborted, ub, nnote, tmploop, qmutex, pkt,
                  bytes, decoded, queue, taken >>

\* Server::send and Server::broadcast: the guard that returns at once
ServerSendGuard(run) == run

\* Server::send: the guard, then serialize and create the packet
SrvSendCheck(c, p) ==
  /\ Alive /\ role = "Server" /\ apppc = "idle"
  /\ lastcall' = [ NoCall EXCEPT !.op = "send", !.c = c, !.run = running,
                     !.reg = c \in DOMAIN clients, !.discd = DiscPushed(c),
                     !.out = IF ServerSendGuard(running) THEN "rejected" ELSE "pending" ]
  /\ IF ServerSendGuard(running)
       THEN UNCHANGED << apppc, sendarg >>
       ELSE /\ apppc' = "created"
            /\ sendarg' = [ c |-> c, buf |-> serialize_packet(p) ]
  /\ UNCHANGED << role, running, connected, joinable, looppc, ev, net, tstate,
                  pdata, clients, curid, cmutex, peer, events, pushed, popped,
                  pollpc, ndisc, aborted, ub, nnote, tmploop, qmutex, pkt,
                  bytes, decoded, queue, taken >>

\* a send that reads the map without taking the lock
SendLockHolder_None == "free"

\* Server::send: the holder of clients_mutex once send has locked it
SendLockHolder == "send"

\* Server::send: std::scoped_lock(clients_mutex)
SrvSendLock ==
  /\ Alive /\ role = "Server" /\ apppc = "created"
  /\ cmutex = "free"
  /\ cmutex' = SendLockHolder
  /\ apppc' = "locked"
  /\ UNCHANGED << role, running, connected, joinable, looppc, ev, net, tstate,
                  pdata, clients, curid, peer, events, pushed, popped, sendarg,
                  pollpc, lastcall, ndisc, aborted, ub, nnote, tmploop, qmutex,
                  pkt, bytes, decoded, queue, taken >>

\* Server::send: find the client, enet_peer_send to its handle, unlock.
\* enet_peer_send fails on a peer that is not connected.
SrvSendLookup ==
  /\ Alive /\ role = "Server" /\ apppc = "locked"
  /\ IF sendarg.c \notin DOMAIN clients
       THEN lastcall' = [ lastcall EXCEPT !.out = "notfound" ]
       ELSE IF tstate[clients[sendarg.c]] = "connected"
         THEN lastcall' = [ lastcall EXCEPT !.out = "sent", !.to = clients[sendarg.c],
                                            !.buf = sendarg.buf ]
         ELSE lastcall' = [ lastcall EXCEPT !.out = "failed" ]
  /\ cmutex' = "free"
  /\ apppc' = "idle"
  /\ sendarg' = NoSend
  /\ UNCHANGED << role, running, connected, joinable, looppc, ev, net, tstate,
                  pdata, clients, curid, peer, events, pushed, popped, pollpc,
                  ndisc, aborted, ub, nnote, tmploop, qmutex, pkt, bytes,
                  decoded, queue, taken >>

\* Server::broadcast
SrvBroadcast(p) ==
  /\ Alive /\ role = "Server" /\ apppc = "idle"
  /\ lastcall' = IF ServerSendGuard(running)
                   THEN [ NoCall EXCEPT !.op = "broadcast", !.run = running,
                                        !.out = "rejected" ]
                   ELSE [ NoCall EXCEPT !.op = "broadcast", !.run = running,
                                        !.out = "sent", !.buf = serialize_packet(p) ]
  /\ UNCHANGED << role, running, connected, joinable, looppc, ev, net, tstate,
                  pdata, clients, curid, cmutex, peer, events, pushed, popped,
                  apppc, sendarg, pollpc, ndisc, aborted, ub, nnote, tmploop,
                  qmutex, pkt, bytes, decoded, queue, taken >>

\* ------------------------------------------------------------------ Client
\* Client::isconnected
isconnected == connected /\ peer # 0

\* a guard that forgets the connection in progress
ClientConnectGuard_ConnectedOnly(conn, run) == conn

\* Client::connect: the guard that makes the call a no-op
ClientConnectGuard(conn, run) == conn \/ run

\* Client::connect: the guard, then enet_host_connect into this->peer;
\* a null peer throws std::runtime_error
CliConnectRequest ==
  /\ Alive /\ role = "Client" /\ apppc = "idle"
  /\ IF ClientConnectGuard(connected, running)
       THEN /\ lastcall' = [ NoCall EXCEPT !.op = "connect", !.run = running,
                                           !.conn = connected, !.out = "noop" ]
            /\ UNCHANGED << peer, tstate, apppc >>
       ELSE IF tstate[ServerPeer] = "none"
         THEN /\ peer' = ServerPeer
              /\ tstate' = [ tstate EXCEPT ![ServerPeer] = "connecting" ]
              /\ apppc' = "conn_run"
              /\ lastcall' = [ NoCall EXCEPT !.op = "connect", !.run = running,
                                             !.conn = connected, !.out = "pending" ]
         ELSE /\ peer' = 0
              /\ lastcall' = [ NoCall EXCEPT !.op = "connect", !.run = running,
                                             !.conn = connected, !.out = "threw" ]
              /\ UNCHANGED << tstate, apppc >>
  /\ UNCHANGED << role, running, connected, joinable, looppc, ev, net, pdata,
                  clients, curid, cmutex, events, pushed, popped, sendarg,
                  pollpc, ndisc, aborted, ub, nnote, tmploop, qmutex, pkt,
                  bytes, decoded, queue, taken >>

\* Client::connect: running = true
CliConnectRunning ==
  /\ Alive /\ role = "Client" /\ apppc = "conn_run"
  /\ running' = TRUE
  /\ apppc' = "conn_spawn"
  /\ UNCHANGED << role, connected, joinable, looppc, ev, net, tstate, pdata,
                  clients, curid, cmutex, peer, events, pushed, popped,
                  sendarg, pollpc, lastcall, ndisc, aborted, ub, nnote,
                  tmploop, qmutex, pkt, bytes, decoded, queue, taken >>

\* Client::connect: std::thread(&Client::network_thread_loop, this): the
\* temporary starts a loop task at once.  When the task this->thread holds has
\* returned (or there is none) the new task is the only one; otherwise it runs
\* beside the old one.
CliConnectSpawn ==
  /\ Alive /\ role = "Client" /\ apppc = "conn_spawn"
  /\ IF LoopLive
       THEN tmploop' = TRUE /\ UNCHANGED looppc
       ELSE looppc' = "outer" /\ UNCHANGED tmploop
  /\ apppc' = "conn_assign"
  /\ UNCHANGED << role, running, connected, joinable, ev, net, tstate, pdata,
                  clients, curid, cmutex, peer, events, pushed, popped,
                  sendarg, pollpc, lastcall, ndisc, aborted, ub, nnote, qmutex,
                  pkt, bytes, decoded, queue, taken >>

\* Client::connect: this->thread = (the temporary); move-assigning to a
\* joinable std::thread calls std::terminate
CliConnectAssign ==
  /\ Alive /\ role = "Client" /\ apppc = "conn_assign"
  /\ IF joinable
       THEN aborted' = TRUE /\ UNCHANGED joinable
       ELSE joinable' = TRUE /\ UNCHANGED aborted
  /\ apppc' = "idle"
  /\ lastcall' = [ lastcall EXCEPT !.out = IF joinable THEN "terminated" ELSE "started" ]
  /\ UNCHANGED << role, running, connected, looppc, ev, net, tstate, pdata,
                  clients, curid, cmutex, peer, events, pushed, popped,
                  sendarg, pollpc, ndisc, ub, nnote, tmploop, qmutex, pkt,
                  bytes, decoded, queue, taken >>

\* the second loop task passes while(this->running) and calls
\* enet_host_service while the first is inside it: two threads in one
\* ENetHost, a data race
TmpLoopService ==
  /\ Alive /\ tmploop /\ running /\ looppc = "service"
  /\ ub' = TRUE
  /\ UNCHANGED << role, running, connected, joinable, looppc, ev, net, tstate,
                  pdata, clients, curid, cmutex, peer, events, pushed, popped,
                  apppc, sendarg, pollpc, lastcall, ndisc, aborted, nnote,
                  tmploop, qmutex, pkt, bytes, decoded, queue, taken >>

\* Client::disconnect: enet_peer_disconnect unless !isconnected(); the
\* transport starts a disconnect only on a connected peer
CliDisconnect ==
  /\ Alive /\ role = "Client" /\ apppc = "idle"
  /\ ndisc < MaxDisc
  /\ IF ~isconnected
       THEN /\ lastcall' = [ NoCall EXCEPT !.op = "disconnect", !.run = running,
                                           !.conn = connected, !.out = "noop" ]
            /\ UNCHANGED << ndisc, tstate >>
       ELSE /\ lastcall' = [ NoCall EXCEPT !.op = "disconnect", !.run = running,
                                           !.conn = connected, !.out = "issued" ]
            /\ ndisc' = ndisc + 1
            /\ tstate' = IF tstate[peer] = "connected"
                           THEN [ tstate EXCEPT ![peer] = "disconnecting" ]
                           ELSE tstate
  /\ UNCHANGED << role, running, connected, joinable, looppc, ev, net, pdata,
                  clients, curid, cmutex, peer, events, pushed, popped, apppc,
                  sendarg, pollpc, aborted, ub, nnote, tmploop, qmutex, pkt,
                  bytes, decoded, queue, taken >>

\* Client::send
CliSend(p) ==
  /\ Alive /\ role = "Client" /\ apppc = "idle"
  /\ IF ~connected
       THEN lastcall' = [ NoCall EXCEPT !.op = "send", !.run = running,
                                        !.conn = connected, !.out = "noop" ]
       ELSE IF tstate[peer] = "connected"
         THEN lastcall' = [ NoCall EXCEPT !.op = "send", !.run = running,
                                          !.conn = connected, !.out = "sent",
                                          !.to = peer, !.buf = serialize_packet(p) ]
         ELSE lastcall' = [ NoCall EXCEPT !.op = "send", !.run = running,
                                          !.conn = connected, !.out = "failed" ]
  /\ UNCHANGED << role, running, connected, joinable, looppc, ev, net, tstate,
                  pdata, clients, curid, cmutex, peer, events, pushed, popped,
                  apppc, sendarg, pollpc, ndisc, aborted, ub, nnote, tmploop,
                  qmutex, pkt, bytes, decoded, queue, taken >>

\* ------------------------------------------------------------- destructors
\* a shutdown that destroys the host without waiting for the loop task
JoinNeeded_Never(j) == FALSE

\* stop_network / stop: if(this->thread.joinable()) this->thread.join()
JoinNeeded(j) == j

\* Client::~Client: if(this->connected) this->disconnect()
CliDtorDisconnect ==
  /\ Alive /\ role = "Client" /\ apppc = "idle"
  /\ IF connected /\ isconnected
       THEN /\ ndisc' = ndisc + 1
            /\ tstate' = IF tstate[peer] = "connected"
                           THEN [ tstate EXCEPT ![peer] = "disconnecting" ]
                           ELSE tstate
       ELSE UNCHANGED << ndisc, tstate >>
  /\ apppc' = "dtor_stop"
  /\ UNCHANGED << role, running, connected, joinable, looppc, ev, net, pdata,
                  clients, curid, cmutex, peer, events, pushed, popped,
                  sendarg, pollpc, lastcall, aborted, ub, nnote, tmploop,
                  qmutex, pkt, bytes, decoded, queue, taken >>

\* Client::~Client, stop_network: running = false
CliDtorStop ==
  /\ Alive /\ role = "Client" /\ apppc = "dtor_stop"
  /\ running' = FALSE
  /\ apppc' = IF JoinNeeded(joinable) THEN "dtor_join" ELSE "dtor_reset"
  /\ UNCHANGED << role, connected, joinable, looppc, ev, net, tstate, pdata,
                  clients, curid, cmutex, peer, events, pushed, popped,
                  sendarg, pollpc, lastcall, ndisc, aborted, ub, nnote,
                  tmploop, qmutex, pkt, bytes, decoded, queue, taken >>

\* Server::~Server: if(this->running) this->stop(), whose first statement is
\* running = false
SrvDtorStop ==
  /\ Alive /\ role = "Server" /\ apppc = "idle"
  /\ running' = FALSE
  /\ apppc' = IF running /\ JoinNeeded(joinable) THEN "dtor_join" ELSE "dtor_destroy"
  /\ UNCHANGED << role, connected, joinable, looppc, ev, net, tstate, pdata,
                  clients, curid, cmutex, peer, events, pushed, popped,
                  sendarg, pollpc, lastcall, ndisc, aborted, ub, nnote,
                  tmploop, qmutex, pkt, bytes, decoded, queue, taken >>

\* stop_network / stop called by the destructor: thread.join() returns once
\* the loop task has returned
DtorJoin ==
  /\ Alive /\ apppc = "dtor_join"
  /\ looppc = "exited"
  /\ joinable' = FALSE
  /\ looppc' = "off"
  /\ apppc' = IF role = "Client" THEN "dtor_reset" ELSE "dtor_destroy"
  /\ UNCHANGED << role, running, connected, ev, net, tstate, pdata, clients,
                  curid, cmutex, peer, events, pushed, popped, sendarg, pollpc,
                  lastcall, ndisc, aborted, ub, nnote, tmploop, qmutex, pkt,
                  bytes, decoded, queue, taken >>

\* Client::~Client: if(this->peer != nullptr) enet_peer_reset, peer = nullptr
CliDtorReset ==
  /\ Alive /\ role = "Client" /\ apppc = "dtor_reset"
  /\ IF peer # 0
       THEN tstate' = [ tstate EXCEPT ![peer] = "none" ] /\ peer' = 0
       ELSE UNCHANGED << tstate, peer >>
  /\ apppc' = "dtor_destroy"
  /\ UNCHANGED << role, running, connected, joinable, looppc, ev, net, pdata,
                  clients, curid, cmutex, events, pushed, popped, sendarg,
                  pollpc, lastcall, ndisc, aborted, ub, nnote, tmploop, qmutex,
                  pkt, bytes, decoded, queue, taken >>

\* ~Client / ~Server: enet_host_destroy(this->host)
DtorDestroy ==
  /\ Alive /\ apppc = "dtor_destroy"
  /\ apppc' = "destroyed"
  /\ UNCHANGED << role, running, connected, joinable, looppc, ev, net, tstate,
                  pdata, clients, curid, cmutex, peer, events, pushed, popped,
                  sendarg, pollpc, lastcall, ndisc, aborted, ub, nnote,
                  tmploop, qmutex, pkt, bytes, decoded, queue, taken >>

\* -------------------------------------------------------------- poll_event
\* a thread calling poll_event takes the queue's mutex: the scoped_lock of
\* empty() before the check, of pop_front() before the pop
PollQueueLock(t) ==
  /\ Alive /\ pollpc[t] \in { "idle", "pop" }
  /\ qmutex = NoThread
  /\ qmutex' = PollThread(t)
  /\ UNCHANGED << role, running, connected, joinable, looppc, ev, net, tstate,
                  pdata, clients, curid, cmutex, peer, events, pushed, popped,
                  apppc, sendarg, pollpc, lastcall, ndisc, aborted, ub, nnote,
                  tmploop, pkt, bytes, decoded, queue, taken >>


\* Server::poll_event / Client::poll_event: if(events.empty()) return false
PollCheck(t) ==
  /\ Alive /\ pollpc[t] = "idle"
  /\ MuxFor(qmutex, PollThread(t))
  /\ qmutex' = NoThread
  /\ pollpc' = [ pollpc EXCEPT ![t] = IF empty(events) THEN "idle" ELSE "pop" ]
  /\ UNCHANGED << role, running, connected, joinable, looppc, ev, net, tstate,
                  pdata, clients, curid, cmutex, peer, events, pushed, popped,
                  apppc, sendarg, lastcall, ndisc, aborted, ub, nnote, tmploop,
                  pkt, bytes, decoded, queue, taken >>

\* Server::poll_event / Client::poll_event: event = events.pop_front();
\* front() of an empty deque is undefined
PollPop(t) ==
  /\ Alive /\ pollpc[t] = "pop"
  /\ MuxFor(qmutex, PollThread(t))
  /\ qmutex' = NoThread
  /\ IF empty(events)
       THEN ub' = TRUE /\ UNCHANGED << events, popped >>
       ELSE /\ popped' = Record(popped, pop_front_item(events))
            /\ events' = pop_front_rest(events)
            /\ UNCHANGED ub
  /\ pollpc' = [ pollpc EXCEPT ![t] = "idle" ]
  /\ UNCHANGED << role, running, connected, joinable, looppc, ev, net, tstate,
                  pdata, clients, curid, cmutex, peer, pushed, apppc, sendarg,
                  lastcall, ndisc, aborted, nnote, tmploop, pkt, bytes,
                  decoded, queue, taken >>

\* ------------------------------------------------- the codec, on its own
\* PacketHelper::serialize_packet(pkt)
CodecSerialize ==
  /\ bytes' = serialize_packet(pkt)
  /\ UNCHANGED << role, running, connected, joinable, looppc, ev, net, tstate,
                  pdata, clients, curid, cmutex, peer, events, pushed, popped,
                  apppc, sendarg, pollpc, lastcall, ndisc, aborted, ub, nnote,
                  tmploop, qmutex, pkt, decoded, queue, taken >>

\* PacketHelper::deserialize_packet(bytes.data(), bytes.size())
CodecDeserialize ==
  /\ decoded' = [ of |-> bytes, out |-> deserialize_packet(bytes) ]
  /\ UNCHANGED << role, running, connected, joinable, looppc, ev, net, tstate,
                  pdata, clients, curid, cmutex, peer, events, pushed, popped,
                  apppc, sendarg, pollpc, lastcall, ndisc, aborted, ub, nnote,
                  tmploop, qmutex, pkt, bytes, queue, taken >>

\* ----------------------------------------------- the TSQueue, on its own
\* TSQueue::push_back(item)
QueuePushBack(item) ==
  /\ Len(queue) < MaxQueue
  /\ queue' = push_back(queue, item)
  /\ UNCHANGED << role, running, connected, joinable, looppc, ev, net, tstate,
                  pdata, clients, curid, cmutex, peer, events, pushed, popped,
                  apppc, sendarg, pollpc, lastcall, ndisc, aborted, ub, nnote,
                  tmploop, qmutex, pkt, bytes, decoded, taken >>

\* TSQueue::pop_back() on a non-empty queue
QueuePopBack ==
  /\ ~ empty(queue)
  /\ taken' = [ before |-> queue, item |-> pop_back_item(queue) ]
  /\ queue' = pop_back_rest(queue)
  /\ UNCHANGED << role, running, connected, joinable, looppc, ev, net, tstate,
                  pdata, clients, curid, cmutex, peer, events, pushed, popped,
                  apppc, sendarg, pollpc, lastcall, ndisc, aborted, ub, nnote,
                  tmploop, qmutex, pkt, bytes, decoded >>

\* ---------------------------------------------- transport calls in progress
\* send, broadcast and disconnect with the transport call they make taken in
\* two steps, entry and return, so that the calling thread can be inside
\* enet_peer_send, enet_host_broadcast or enet_peer_disconnect while the other
\* threads run.

\* the loop task is inside enet_host_service(this->host, &event, 5);
\* LoopService is the return of that call
InService == looppc = "service"

\* the calling thread is inside a transport call on this->host or on a peer
\* of it
InTransportCall == apppc \in { "peer_send", "host_broadcast", "peer_disconnect" }

\* Client::send: the guard, serialize, enet_packet_create, and the entry
\* into enet_peer_send(this->peer, 0, epacket)
CliSendEnter(p) ==
  /\ Alive /\ role = "Client" /\ apppc = "idle"
  /\ IF ~connected
       THEN /\ lastcall' = [ NoCall EXCEPT !.op = "send", !.run = running,
                                           !.conn = connected, !.out = "noop" ]
            /\ UNCHANGED << apppc, sendarg >>
       ELSE /\ lastcall' = [ NoCall EXCEPT !.op = "send", !.run = running,
                                           !.conn = connected, !.out = "pending" ]
            /\ apppc' = "peer_send"
            /\ sendarg' = [ c |-> 0, buf |-> serialize_packet(p) ]
  /\ UNCHANGED << role, running, connected, joinable, looppc, ev, net, tstate,
                  pdata, clients, curid, cmutex, peer, events, pushed, popped,
                  pollpc, ndisc, aborted, ub, nnote, tmploop, qmutex, pkt,
                  bytes, decoded, queue, taken >>

\* Client::send: enet_peer_send returns
CliSendReturn ==
  /\ Alive /\ role = "Client" /\ apppc = "peer_send"
  /\ lastcall' = IF tstate[peer] = "connected"
                   THEN [ lastcall EXCEPT !.out = "sent", !.to = peer,
                                          !.buf = sendarg.buf ]
                   ELSE [ lastcall EXCEPT !.out = "failed" ]
  /\ apppc' = "idle"
  /\ sendarg' = NoSend
  /\ UNCHANGED << role, running, connected, joinable, looppc, ev, net, tstate,
                  pdata, clients, curid, cmutex, peer, events, pushed, popped,
                  pollpc, ndisc, aborted, ub, nnote, tmploop, qmutex, pkt,
                  bytes, decoded, queue, taken >>

\* Client::disconnect: the guard and the entry into
\* enet_peer_disconnect(this->peer, 0)
CliDisconnectEnter ==
  /\ Alive /\ role = "Client" /\ apppc = "idle"
  /\ ndisc < MaxDisc
  /\ IF ~isconnected
       THEN /\ lastcall' = [ NoCall EXCEPT !.op = "disconnect", !.run = running,
                                           !.conn = connected, !.out = "noop" ]
            /\ UNCHANGED apppc
       ELSE /\ lastcall' = [ NoCall EXCEPT !.op = "disconnect", !.run = running,
                                           !.conn = connected, !.out = "pending" ]
            /\ apppc' = "peer_disconnect"
  /\ UNCHANGED << role, running, connected, joinable, looppc, ev, net, tstate,
                  pdata, clients, curid, cmutex, peer, events, pushed, popped,
                  sendarg, pollpc, ndisc, aborted, ub, nnote, tmploop, qmutex,
                  pkt, bytes, decoded, queue, taken >>

\* Client::disconnect: enet_peer_disconnect returns; the transport starts a
\* disconnect only on a connected peer
CliDisconnectReturn ==
  /\ Alive /\ role = "Client" /\ apppc = "peer_disconnect"
  /\ lastcall' = [ lastcall EXCEPT !.out = "issued" ]
  /\ ndisc' = ndisc + 1
  /\ tstate' = IF tstate[peer] = "connected"
                 THEN [ tstate EXCEPT ![peer] = "disconnecting" ]
                 ELSE tstate
  /\ apppc' = "idle"
  /\ UNCHANGED << role, running, connected, joinable, looppc, ev, net, pdata,
                  clients, curid, cmutex, peer, events, pushed, popped,
                  sendarg, pollpc, aborted, ub, nnote, tmploop, qmutex, pkt,
                  bytes, decoded, queue, taken >>

\* Server::send: clients.find(client_id) under the lock, and, when the client
\* is registered, the entry into enet_peer_send(it->second, 0, epacket)
SrvSendFind ==
  /\ Alive /\ role = "Server" /\ apppc = "locked"
  /\ IF sendarg.c \notin DOMAIN clients
       THEN /\ lastcall' = [ lastcall EXCEPT !.out = "notfound" ]
            /\ cmutex' = "free"
            /\ apppc' = "idle"
            /\ sendarg' = NoSend
       ELSE /\ apppc' = "peer_send"
            /\ UNCHANGED << lastcall, cmutex, sendarg >>
  /\ UNCHANGED << role, running, connected, joinable, looppc, ev, net, tstate,
                  pdata, clients, curid, peer, events, pushed, popped, pollpc,
                  ndisc, aborted, ub, nnote, tmploop, qmutex, pkt, bytes,
                  decoded, queue, taken >>

\* Server::send: enet_peer_send returns (it fails on a peer that is not
\* connected), unlock
SrvSendReturn ==
  /\ Alive /\ role = "Server" /\ apppc = "peer_send"
  /\ lastcall' = IF tstate[clients[sendarg.c]] = "connected"
                   THEN [ lastcall EXCEPT !.out = "sent", !.to = clients[sendarg.c],
                                          !.buf = sendarg.buf ]
                   ELSE [ lastcall EXCEPT !.out = "failed" ]
  /\ cmutex' = "free"
  /\ apppc' = "idle"
  /\ sendarg' = NoSend
  /\ UNCHANGED << role, running, connected, joinable, looppc, ev, net, tstate,
                  pdata, clients, curid, peer, events, pushed, popped, pollpc,
                  ndisc, aborted, ub, nnote, tmploop, qmutex, pkt, bytes,
                  decoded, queue, taken >>

\* Server::broadcast: the guard, serialize, enet_packet_create, and the entry
\* into enet_host_broadcast(this->host, 0, epacket)
SrvBroadcastEnter(p) ==
  /\ Alive /\ role = "Server" /\ apppc = "idle"
  /\ IF ServerSendGuard(running)
       THEN /\ lastcall' = [ NoCall EXCEPT !.op = "broadcast", !.run = running,
                                           !.out = "rejected" ]
            /\ UNCHANGED << apppc, sendarg >>
       ELSE /\ lastcall' = [ NoCall EXCEPT !.op = "broadcast", !.run = running,
                                           !.out = "pending" ]
            /\ apppc' = "host_broadcast"
            /\ sendarg' = [ c |-> 0, buf |-> serialize_packet(p) ]
  /\ UNCHANGED << role, running, connected, joinable, looppc, ev, net, tstate,
                  pdata, clients, curid, cmutex, peer, events, pushed, popped,
                  pollpc, ndisc, aborted, ub, nnote, tmploop, qmutex, pkt,
                  bytes, decoded, queue, taken >>

\* Server::broadcast: enet_host_broadcast returns
SrvBroadcastReturn ==
  /\ Alive /\ role = "Server" /\ apppc = "host_broadcast"
  /\ lastcall' = [ lastcall EXCEPT !.out = "sent", !.buf = sendarg.buf ]
  /\ apppc' = "idle"
  /\ sendarg' = NoSend
  /\ UNCHANGED << role, running, connected, joinable, looppc, ev, net, tstate,
                  pdata, clients, curid, cmutex, peer, events, pushed, popped,
                  pollpc, ndisc, aborted, ub, nnote, tmploop, qmutex, pkt,
                  bytes, decoded, queue, taken >>

\* two threads execute inside one ENetHost, which has no lock of its own:
\* a data race on the host's peers and queues
HostRace ==
  /\ Alive /\ InService /\ InTransportCall
  /\ ub' = TRUE
  /\ UNCHANGED << role, running, connected, joinable, looppc, ev, net, tstate,
                  pdata, clients, curid, cmutex, peer, events, pushed, popped,
                  apppc, sendarg, pollpc, lastcall, ndisc, aborted, nnote,
                  tmploop, qmutex, pkt, bytes, decoded, queue, taken >>

\* ----------------------------------------------------------- specification
\* what the transport does
Transport ==
  \/ \E p \in Peers : EnvConnect(p)
  \/ EnvConnectOk
  \/ \E p \in Peers, w \in Wires : EnvReceive(p, w)
  \/ \E p \in Peers, k \in { "DISCONNECT", "DISCONNECT_TIMEOUT" } : EnvDisconnect(p, k)

\* the loop task, the calls that start and end sessions, and poll_event
Lifecycle ==
  \/ LoopOuter
  \/ LoopService
  \/ SrvConnectRegister
  \/ SrvConnectPush
  \/ SrvReceive
  \/ SrvDisconnectErase
  \/ SrvDisconnectPush
  \/ CliConnectSet
  \/ CliConnectPush
  \/ CliReceive
  \/ CliDisconnectRunning
  \/ CliDisconnectConnected
  \/ CliDisconnectPush
  \/ Start
  \/ Stop
  \/ StopJoin
  \/ CliConnectRequest
  \/ CliConnectRunning
  \/ CliConnectSpawn
  \/ CliConnectAssign
  \/ TmpLoopService
  \/ CliDisconnect
  \/ \E t \in DOMAIN pollpc : PollCheck(t)
  \/ \E t \in DOMAIN pollpc : PollPop(t)

\* send and broadcast
Sending ==
  \/ \E c \in 1 .. MaxNotes : SrvSendCheck(c, OkPacket)
  \/ SrvSendLock
  \/ SrvSendLookup
  \/ SrvBroadcast(OkPacket)
  \/ CliSend(HiPacket)

Next == Transport \/ Lifecycle \/ Sending

Spec == Init /\ [][Next]_vars

\* the codec applied to every packet of Packets and every input of
\* CodecInputs
InitCodec ==
  /\ InitSession /\ role = "Server"
  /\ pollpc = [ t \in Consumers |-> "idle" ]
  /\ pkt \in Packets
  /\ bytes \in CodecInputs
  /\ decoded = NoDecode
  /\ queue = << >>
  /\ taken = NoTake

NextCodec == CodecSerialize \/ CodecDeserialize

SpecCodec == InitCodec /\ [][NextCodec]_vars

\* a TSQueue of integers, pushed and popped at the back
InitQueue ==
  /\ InitSession /\ role = "Server"
  /\ pollpc = [ t \in Consumers |-> "idle" ]
  /\ pkt = NoPacket
  /\ bytes = << >>
  /\ decoded = NoDecode
  /\ queue = << >>
  /\ taken = NoTake

NextQueue == (\E item \in QueueItems : QueuePushBack(item)) \/ QueuePopBack

SpecQueue == InitQueue /\ [][NextQueue]_vars

\* the instance with its destructor; send and broadcast, which neither
\* start nor end a loop task, are left out
NextDtor ==
  \/ Transport
  \/ Lifecycle
  \/ CliDtorDisconnect
  \/ CliDtorStop
  \/ SrvDtorStop
  \/ DtorJoin
  \/ CliDtorReset
  \/ DtorDestroy

SpecDtor == Init /\ [][NextDtor]_vars

\* the same instance polled by several threads
SpecCallers == InitCallers /\ [][Next]_vars

\* A Server under sustained traffic, with fair scheduling of its threads: the
\* loop task, the thread inside stop() and the polling threads each take
\* their next step when they can; the transport is not obliged to do anything.
InitServer == Init /\ role = "Server"

LoopStep ==
  \/ LoopOuter
  \/ LoopService
  \/ SrvConnectRegister
  \/ SrvConnectPush
  \/ SrvReceive
  \/ SrvDisconnectErase
  \/ SrvDisconnectPush

PollStep == \E t \in DOMAIN pollpc : PollCheck(t) \/ PollPop(t)

NextServer ==
  \/ \E p \in Peers : EnvConnect(p)
  \/ \E p \in Peers : EnvFlood(p, serialize_packet(HiPacket))
  \/ \E p \in Peers, k \in { "DISCONNECT", "DISCONNECT_TIMEOUT" } : EnvDisconnect(p, k)
  \/ LoopStep
  \/ Start
  \/ Stop
  \/ StopJoin
  \/ PollStep

SpecServerFair ==
  /\ InitServer
  /\ [][NextServer]_vars
  /\ WF_vars(LoopStep)
  /\ WF_vars(StopJoin)
  /\ WF_vars(PollStep)

\* a Server with the queue's mutex taken in steps of its own, so that a
\* thread can hold it while another waits; the calls that take a lock, with
\* send addressed to the first client
NextLocks ==
  \/ \E p \in Peers : EnvConnect(p)
  \/ \E p \in Peers, w \in Wires : EnvReceive(p, w)
  \/ \E p \in Peers, k \in { "DISCONNECT", "DISCONNECT_TIMEOUT" } : EnvDisconnect(p, k)
  \/ LoopStep
  \/ LoopQueueLock
  \/ Start
  \/ Stop
  \/ StopJoin
  \/ SrvSendCheck(FirstId, OkPacket)
  \/ SrvSendLock
  \/ SrvSendLookup
  \/ PollStep
  \/ \E t \in DOMAIN pollpc : PollQueueLock(t)

SpecLocks == InitServer /\ [][NextLocks]_vars

\* the instance with the transport calls of send, broadcast and disconnect
\* taken in two steps
NextHost ==
  \/ Transport
  \/ LoopStep
  \/ CliConnectSet
  \/ CliConnectPush
  \/ CliReceive
  \/ CliDisconnectRunning
  \/ CliDisconnectConnected
  \/ CliDisconnectPush
  \/ Start
  \/ Stop
  \/ StopJoin
  \/ CliConnectRequest
  \/ CliConnectRunning
  \/ CliConnectSpawn
  \/ CliConnectAssign
  \/ TmpLoopService
  \/ PollStep
  \/ CliSendEnter(HiPacket)
  \/ CliSendReturn
  \/ CliDisconnectEnter
  \/ CliDisconnectReturn
  \/ \E c \in 1 .. MaxNotes : SrvSendCheck(c, OkPacket)
  \/ SrvSendLock
  \/ SrvSendFind
  \/ SrvSendReturn
  \/ SrvBroadcastEnter(OkPacket)
  \/ SrvBroadcastReturn
  \/ HostRace

SpecHost == Init /\ [][NextHost]_vars

\* ------------------------------------------------------------------ claims
PushedIds == { pushed[i].peer_id : i \in 1 .. Len(pushed) }

\* positions in the push history of the Connect/Disconnect events of one id
Life(id) ==
  { i \in 1 .. Len(pushed) :
      pushed[i].peer_id = id /\ pushed[i].type \in { "Connect", "Disconnect" } }

\* i and j are consecutive Connect/Disconnect events of id
Adjacent(id, i, j) == i < j /\ ~ \E k \in Life(id) : i < k /\ k < j

NoRepeat(id, type) ==
  \A i \in Life(id), j \in Life(id) :
    Adjacent(id, i, j) => ~ (pushed[i].type = type /\ pushed[j].type = type)

StartsWithConnect(id) ==
  \A i \in Life(id) : (\A k \in Life(id) : i <= k) => pushed[i].type = "Connect"

StrictAlternation(id) ==
  StartsWithConnect(id) /\ NoRepeat(id, "Connect") /\ NoRepeat(id, "Disconnect")

\* the step pushes exactly one event, of this type
Pushes(type) ==
  /\ Len(pushed') = Len(pushed) + 1
  /\ SubSeq(pushed', 1, Len(pushed)) = pushed
  /\ pushed'[Len(pushed')].type = type

\* the ids of the Connect events, in push order
ConnectPositions == { i \in 1 .. Len(pushed) : pushed[i].type = "Connect" }
ConnectRank(i) == Cardinality({ k \in ConnectPositions : k <= i })

\* C1: the events poll_event has returned, followed by the events still
\* queued, are exactly the events pushed, in push order: nothing is lost,
\* duplicated or reordered, however pushes and pops interleave.
C1_Fifo == popped \o events = pushed

C1_Witness ==
  /\ Len(popped) >= 2 /\ popped[1] # popped[2]
  /\ events # << >>

\* C2 (as stated): for every peer id the Connect/Disconnect events pushed
\* alternate strictly, starting with Connect.
C2_StrictAlternation == \A id \in PushedIds : StrictAlternation(id)

\* C2 (amended): two Connect events of one id never appear without a
\* Disconnect of that id between them; on a Server the events of an id
\* alternate strictly from Connect; every push takes one notification and
\* pushes the event of its kind.
C2_OnePerNotification ==
  [][ pushed' # pushed =>
        /\ \E t \in { "Connect", "Disconnect", "Receive" } : Pushes(t)
        /\ ev' = NoEvent
        /\ Pushes("Connect") <=> ev.type = "CONNECT"
        /\ Pushes("Disconnect") <=> IsDisconnect(ev)
        /\ Pushes("Receive") <=> ev.type = "RECEIVE" ]_vars

C2_NoTwoConnects ==
  /\ \A id \in PushedIds : NoRepeat(id, "Connect")
  /\ role = "Server" => \A id \in PushedIds : StrictAlternation(id)
  /\ role = "Client" => PushedIds \subseteq { 0 }

\* C2 (amended): no two Connect events of an id without a Disconnect between
\* them, strict alternation on a Server, one event per notification.
C2_Lifecycle == [] C2_NoTwoConnects /\ C2_OnePerNotification

C2_Witness ==
  /\ role = "Server"
  /\ pushed = << MkEvent(1, "Connect", << >>), MkEvent(2, "Connect", << >>),
                 MkEvent(2, "Disconnect", << >>) >>
  /\ DOMAIN clients = { 1 }

\* C3: on a Server the n-th Connect event pushed carries id n: ids start at
\* 1, grow with acceptance order and are never assigned twice, whatever
\* disconnects and stop()/start() calls happen in between.
C3_IdsInOrder ==
  role = "Server" =>
    /\ \A i \in ConnectPositions : pushed[i].peer_id = ConnectRank(i)
    /\ \A c \in DOMAIN clients : 1 <= c /\ c < curid

C3_Witness ==
  /\ role = "Server"
  /\ \E i, j, k \in 1 .. Len(pushed) :
       /\ i < j /\ j < k
       /\ pushed[i] = MkEvent(1, "Connect", << >>)
       /\ pushed[j] = MkEvent(1, "Disconnect", << >>)
       /\ pushed[k] = MkEvent(2, "Connect", << >>)
  /\ pdata[1] = 2

\* C4 (as stated): a send to a registered client, or a broadcast, made while
\* the Server is running hands the packet to the transport.
C4_SendWhileRunning ==
  /\ (lastcall.op = "send" /\ lastcall.run /\ lastcall.reg) =>
       lastcall.out \in { "pending", "sent" }
  /\ (lastcall.op = "broadcast" /\ lastcall.run) => lastcall.out = "sent"

\* C5 (as stated): a Server send or broadcast made while running is false
\* hands nothing to the transport.
C5_RejectedWhenNotRunning ==
  (role = "Server" /\ lastcall.op \in { "send", "broadcast" } /\ ~ lastcall.run) =>
    lastcall.out \notin { "sent", "failed" }

\* C6: once the Disconnect event of client c has been pushed, c is not in
\* the registry; a send(c) made from then on hands nothing to the transport
\* (it is rejected or finds no client), and no step of send changes the
\* registry, curid, the running flag or the event queue.
C6_Unregistered ==
  role = "Server" =>
    /\ \A c \in DOMAIN clients : ~ DiscPushed(c)
    /\ (lastcall.op = "send" /\ lastcall.discd) =>
         lastcall.out \in { "pending", "rejected", "notfound" }

C6_SendFrame ==
  [][ ( /\ role = "Server"
        /\ \/ apppc \in { "created", "locked" } /\ apppc' # apppc
           \/ apppc = "idle" /\ lastcall' # lastcall ) =>
        UNCHANGED << clients, curid, running, events, pushed, aborted, ub >> ]_vars

\* C6: an id whose Disconnect event was pushed is unregistered, and a later
\* send to it hands nothing to the transport and changes no Server state.
C6_SendAfterDisconnect == [] C6_Unregistered /\ C6_SendFrame

C6_Witness ==
  /\ role = "Server"
  /\ lastcall.op = "send" /\ lastcall.discd /\ lastcall.out = "notfound"
  /\ lastcall.c \notin DOMAIN clients

\* C7 (as stated): a RECEIVE shorter than the header pushes no event, so
\* every Receive event carries a decoded packet.
C7_ReceiveHasPacket ==
  \A i \in 1 .. Len(pushed) :
    pushed[i].type = "Receive" => pushed[i].packet # << >>

\* what a caller reads after polling the newest event, before the loop has
\* taken another notification
FlagMatchesNewestEvent ==
  (role = "Client" /\ pushed # << >> /\ ev = NoEvent) =>
    /\ pushed[Len(pushed)].type = "Connect" => isconnected
    /\ pushed[Len(pushed)].type = "Disconnect" => ~ isconnected

C8_ConnectedBeforeEvent ==
  [][ role = "Client" =>
        /\ connected' # connected => looppc' # looppc
        /\ Pushes("Connect") => connected /\ connected'
        /\ Pushes("Disconnect") =>
             /\ ~ connected /\ ~ connected'
             /\ running => apppc \in { "conn_spawn", "conn_assign" }
        /\ (looppc = "dispatch" /\ looppc' = "disc_conn") => ~ running' ]_vars

C9_ConnectNoOp ==
  [][ ( /\ role = "Client" /\ apppc = "idle"
        /\ lastcall' # lastcall /\ lastcall'.op = "connect"
        /\ (running \/ connected) ) =>
        UNCHANGED << peer, tstate, net, running, connected, events, pushed,
                     joinable, looppc, apppc, aborted >> ]_vars

C9_Witness ==
  /\ role = "Client"
  /\ lastcall.op = "connect" /\ lastcall.out = "noop"
  /\ lastcall.run /\ ~ lastcall.conn
  /\ running /\ ~ connected /\ tstate[ServerPeer] = "connecting"

\* C10 (as stated): in one Connected session at most one disconnect request
\* reaches the transport, however often disconnect() is called.
C10_OneDisconnectRequest == ndisc <= 1

\* C11 (as stated): a connect() call that finds running and connected false
\* is accepted and completes: the request is issued and a loop task serves the
\* new connection; the process is not terminated.
C11_ReconnectCompletes ==
  (role = "Client" /\ lastcall.op = "connect" /\ ~ lastcall.run /\ ~ lastcall.conn) =>
    lastcall.out \in { "pending", "started" }

\* the network-loop tasks that exist and have not returned
NumLoops == (IF LoopLive THEN 1 ELSE 0) + (IF tmploop THEN 1 ELSE 0)

\* C14 (as stated): at most one network-loop task is live per instance.
C14_OneLoopTask == NumLoops <= 1

\* C12 (as stated): once stop() has cleared running and waits in join, the
\* loop task exits and stop() returns, also under sustained traffic.
C12_StopReturns == (apppc = "joining") ~> (apppc = "idle")

\* C13 (as stated): poll_event never executes pop_front on an empty queue,
\* however many threads call it: a caller that is about to pop finds an item.
C13_PopNeverEmpty ==
  \A t \in DOMAIN pollpc : pollpc[t] = "pop" => ~ empty(events)

\* C15: no network-loop task of the instance is live once its host has been
\* destroyed.
C15_HostOutlivesLoop == HostDestroyed => ~ LoopLive /\ ~ tmploop

\* C15: the destructor's steps come in order: a Client requests a disconnect
\* only when connected, then clears running and joins, and only then resets
\* the peer; the host is destroyed last, after the join.
C15_Steps ==
  [][ /\ (role = "Client" /\ apppc = "idle" /\ apppc' = "dtor_stop") =>
           (ndisc' # ndisc => connected /\ peer # 0)
      /\ (apppc # "dtor_reset" /\ apppc' = "dtor_reset") =>
           ~ running' /\ ~ LoopLive' /\ ~ joinable'
      /\ (apppc = "dtor_reset" /\ apppc' # "dtor_reset") => peer' = 0
      /\ (~ HostDestroyed /\ HostDestroyed') =>
           /\ ~ LoopLive /\ ~ joinable /\ ~ running
           /\ role = "Client" => peer = 0 ]_vars

\* C15: a Client is destroyed in the order disconnect request, stop and join
\* the loop, reset the peer, destroy the host; neither a Client's nor a
\* Server's host is destroyed while a loop task of the instance is live.
C15_DestructionOrder == [] C15_HostOutlivesLoop /\ C15_Steps

C15_Witness ==
  /\ role = "Client" /\ HostDestroyed
  /\ ndisc >= 1 /\ tstate[ServerPeer] = "none"
  /\ pushed # << >> /\ looppc = "off" /\ peer = 0

\* C16: a serialized packet is HeaderSize bytes longer than its payload
C16_Length ==
  [][ bytes' # bytes => Len(bytes') = HeaderSize + Len(pkt.data) ]_vars

\* C16: decoding the bytes serialize_packet made of a packet gives back the
\* packet; decoding fewer than 8 bytes gives no packet, decoding 8 or more
\* gives one.
C16_Decode ==
  /\ decoded.of = serialize_packet(pkt) => decoded.out = << pkt >>
  /\ Len(decoded.of) < 8 => decoded.out = << >>
  /\ Len(decoded.of) >= 8 =>
       /\ Len(decoded.out) = 1
       /\ Len(decoded.out[1].data) = Len(decoded.of) - 8

\* C16: deserialize_packet(serialize_packet(p)) = p for every packet p, the
\* serialized length is 8 + length of the payload, and every input shorter
\* than 8 bytes is refused.
C16_RoundTrip == [] C16_Decode /\ C16_Length

C16_Witness ==
  /\ pkt = [ id |-> 16777217, type |-> 258, data |-> << >> ]
  /\ bytes = << 1, 0, 0, 1, 2, 1, 0, 0 >>
  /\ decoded = [ of |-> bytes, out |-> << pkt >> ]

\* C19 (as stated): pop_back on a non-empty queue returns the back item and
\* leaves the items before it, in order.
C19_PopBack ==
  [][ taken' # taken =>
        /\ taken'.item = queue[Len(queue)]
        /\ queue' = SubSeq(queue, 1, Len(queue) - 1) ]_vars

\* the ids whose CONNECT / DISCONNECT notification the Server loop has
\* processed: their event is pushed, or the handler is about to push it
ConnectProcessed ==
  { pushed[i].peer_id : i \in ConnectPositions }
    \cup (IF looppc = "conn_push" THEN { ev.id } ELSE {})

DisconnectProcessed ==
  { pushed[i].peer_id : i \in { k \in 1 .. Len(pushed) : pushed[k].type = "Disconnect" } }
    \cup (IF looppc = "disc_push" THEN { ev.id } ELSE {})

\* C17: the registry holds the ids connected and not yet disconnected, all
\* below curid, each mapped to the peer that carries it.
C17_Registry ==
  role = "Server" =>
    /\ DOMAIN clients = ConnectProcessed \ DisconnectProcessed
    /\ \A c \in DOMAIN clients :
         /\ 1 <= c /\ c <= curid - 1
         /\ clients[c] \in Peers /\ pdata[clients[c]] = c

\* C17: processing a Disconnect for id c removes entry c only
C17_EraseOne ==
  [][ (role = "Server" /\ looppc = "dispatch" /\ looppc' = "disc_push") =>
        /\ DOMAIN clients' = DOMAIN clients \ { pdata[ev.peer] }
        /\ \A c \in DOMAIN clients' : clients'[c] = clients[c]
        /\ curid' = curid /\ running' = running ]_vars

\* C17: in every Server state the registry is exactly the connected ids,
\* keyed below curid and mapped to their peers, and a Disconnect erases one
\* entry and nothing else.
C17_RegistryExact == [] C17_Registry /\ C17_EraseOne

C17_Witness ==
  /\ role = "Server" /\ running
  /\ DOMAIN clients = { 2 } /\ clients[2] = 2 /\ curid = 3
  /\ DiscPushed(1) /\ tstate[1] = "none"

\* C18 (as stated): a Disconnect event is the last event the loop task of a
\* Client pushes.  Until connect() has constructed a second thread every
\* event was pushed by the first task.
C18_DisconnectIsLast ==
  (role = "Client" /\ apppc # "conn_assign" /\ ~ aborted) =>
    \A i \in 1 .. Len(pushed) - 1 : pushed[i].type # "Disconnect"

\* C20: the registry lock excludes: send reads the map and the loop changes
\* the map and curid only as the holder, never both at once; the loop holds
\* the queue's mutex only for a push, a polling thread only for its check or
\* its pop.
C20_Exclusion ==
  role = "Server" =>
    /\ apppc = "locked" => cmutex = "send"
    /\ looppc \in { "conn_push", "disc_push" } => cmutex = "loop"
    /\ qmutex = LoopThread => AtPush
    /\ \A t \in DOMAIN pollpc : qmutex = PollThread(t) => pollpc[t] \in { "idle", "pop" }

\* C20: a thread that holds a lock can take its next step, or waits for the
\* queue's mutex, whose holder can: no set of threads waits in a circle.
C20_Progress ==
  (role = "Server" /\ Alive) =>
    /\ qmutex = LoopThread => ENABLED LoopStep
    /\ \A t \in DOMAIN pollpc :
         qmutex = PollThread(t) => ENABLED (PollCheck(t) \/ PollPop(t))
    /\ cmutex = "send" => ENABLED SrvSendLookup
    /\ cmutex = "loop" =>
         \/ ENABLED (LoopStep \/ LoopQueueLock)
         \/ \E t \in DOMAIN pollpc : qmutex = PollThread(t)

\* C20: the registry lock is taken only by a thread that does not hold the
\* queue's mutex, and the map and curid change only in a step of the loop that
\* takes or holds the registry lock.
C20_Acquire ==
  [][ role = "Server" =>
        /\ (cmutex = "free" /\ cmutex' = "loop") => qmutex # LoopThread
        /\ (cmutex = "free" /\ cmutex' = "send") => apppc = "created"
        /\ (clients' # clients \/ curid' # curid) =>
             cmutex = "free" /\ cmutex' = "loop" ]_vars

\* C20: the locks are taken in one order (registry lock, then queue mutex),
\* the registry is accessed only under its lock, and no interleaving of the
\* loop with send() and poll_event() callers deadlocks.
C20_LockOrder == [] (C20_Exclusion /\ C20_Progress) /\ C20_Acquire

C20_Witness ==
  /\ role = "Server"
  /\ cmutex = "loop" /\ qmutex = LoopThread /\ looppc = "conn_push"
  /\ apppc = "created"
  /\ pollpc[1] = "pop"

\* C21 (as stated): calls into the transport engine on one host are never in
\* progress on two threads at once: while the loop task is inside the service
\* call, no thread executing send(), broadcast() or disconnect() is inside
\* enet_peer_send, enet_host_broadcast or enet_peer_disconnect on that host.
C21_HostExclusive == ~ (InService /\ InTransportCall)

====
